---- MODULE Spec2Model ----
(***************************************************************************)
(* ActiveTableXBlock (src/activetable/activetable.py): the student-state   *)
(* fields of the block and the four student-facing requests (student_view, *)
(* check_answers, save_answers, add_row), and the author-time validation   *)
(* validate_field_data.                                                    *)
(*                                                                         *)
(* A variable is a field of the block.  A handler that raises part-way     *)
(* leaves the fields it has already assigned as assigned: the source holds *)
(* no try/except or transaction around the handlers, so every assignment   *)
(* made before the raise is modelled as made.                              *)
(*                                                                         *)
(* Python values of several types are stored in the same field; they are   *)
(* encoded as follows.                                                     *)
(*   - a submitted JSON value is a string; JTrue / JFalse stand for the    *)
(*     JSON (and Python) booleans true / false, any other string for       *)
(*     itself;                                                             *)
(*   - None is the record NoneVal;                                         *)
(*   - a cell id is the sequence of the characters of "cell_<row>_<col>"   *)
(*     with the prefix "cell_" kept as one element of length 5.            *)
(***************************************************************************)
EXTENDS Integers, Sequences, FiniteSets, TLC

------------------------------------------------------------------------------
(* Bounds of the model *)

\* the largest number of entries of one submission map
MaxEntries == 2
\* add_row is not taken once the pending-row list holds this many rows, or
\* once the row it would add is more than this many rows past the author's
MaxAdditionalRows == 2
\* check_answers is not taken once attempts has reached this value
MaxAttempts == 2

------------------------------------------------------------------------------
(* Values *)

JTrue == "<true>"
JFalse == "<false>"
NoneVal == [tag |-> "none"]

IsBool(v) == v \in {JTrue, JFalse}

IntVal(n) == [t |-> "int", n |-> n, s |-> ""]
StrVal(s) == [t |-> "str", n |-> 0, s |-> s]

RECURSIVE GCD(_, _)
GCD(a, b) == IF b = 0 THEN a ELSE GCD(b, a % b)

\* the number n / d, in lowest terms
Frac(n, d) == [tag |-> "num", num |-> n \div GCD(n, d), den |-> d \div GCD(n, d)]

Abs(n) == IF n < 0 THEN -n ELSE n

------------------------------------------------------------------------------
(* Cells (cells.py) and table definition (parsers.py) are not part of the  *)
(* source at hand; they follow sections 3, 4.1 and 4.3 of the              *)
(* specification.                                                          *)

StaticCell(value) ==
    [kind |-> "static", value |-> value, answer |-> "", abs_tolerance |-> NoneVal]
TextCell(answer) ==
    [kind |-> "text", value |-> NoneVal, answer |-> answer, abs_tolerance |-> NoneVal]
\* Numeric: an integer answer and the author's absolute tolerance, NoneVal
\* when the author gave none
NumericCell(answer, tolerance) ==
    [kind |-> "numeric", value |-> NoneVal, answer |-> answer, abs_tolerance |-> tolerance]

\* set_tolerance: the absolute tolerance |answer| * tolerance / 100 for a
\* tolerance in percent
set_tolerance(cell, tolerance) ==
    [cell EXCEPT !.abs_tolerance = Frac(Abs(cell.answer) * tolerance, 100)]

\* float(value): the numerals of the model have one digit; any other string
\* does not parse
ParseFloat(value) ==
    IF value \in {"0", "1", "2", "3", "4", "5", "6", "7", "8", "9"}
    THEN [tag |-> "num",
          num |-> CHOOSE d \in 0..9 :
                    value = <<"0", "1", "2", "3", "4", "5", "6", "7", "8", "9">>[d + 1],
          den |-> 1]
    ELSE NoneVal

is_static(cell) == cell.kind = "static"

\* Text: correct iff the submitted string matches the accepted answer.
\* Numeric: correct iff the value parses and |parsed - answer| is at most the
\* tolerance of the cell.  A submitted value that is not a string has no
\* strip(): "AttributeError".
check_response(cell, value) ==
    IF IsBool(value) THEN "AttributeError"
    ELSE IF cell.kind = "numeric"
    THEN IF ParseFloat(value) = NoneVal THEN JFalse
         ELSE IF cell.abs_tolerance = NoneVal THEN JFalse
         ELSE IF Abs(ParseFloat(value).num - cell.answer) * cell.abs_tolerance.den
                   <= cell.abs_tolerance.num
              THEN JTrue ELSE JFalse
    ELSE IF value = cell.answer THEN JTrue ELSE JFalse

\* The author's table definitions of the model: header row, then rows.
ContentA == << <<"H1", "H2">>,
               <<StaticCell(IntVal(5)), TextCell("a")>> >>
ContentB == << <<"H1", "H2">>,
               <<StaticCell(StrVal("x")), TextCell("a")>> >>
ContentC == << <<"H1", "H2">>,
               <<TextCell("a"), TextCell("a")>> >>
Contents == {ContentA, ContentB, ContentC}

\* Table definitions with a numeric response cell: the answers and the
\* explicit tolerances (none, 0 and 1) of the model
NumericContents ==
    {<< <<"H1", "H2">>, <<StaticCell(IntVal(5)), NumericCell(answer, tolerance)>> >> :
       answer \in {-4, 4}, tolerance \in {NoneVal, Frac(0, 1), Frac(1, 1)}}

\* parse_table: thead is the header row; rows are indexed from 1 and cells
\* from 0, in input order.
parse_table(text) ==
    [thead |-> text[1],
     tbody |-> [i \in 1..(Len(text) - 1) |->
                  [index |-> i,
                   cells |-> [j \in 1..Len(text[i + 1]) |->
                                [kind |-> text[i + 1][j].kind,
                                 value |-> text[i + 1][j].value,
                                 answer |-> text[i + 1][j].answer,
                                 abs_tolerance |-> text[i + 1][j].abs_tolerance,
                                 index |-> j - 1]]]]]

------------------------------------------------------------------------------
(* Cell ids *)

Digit(d) == CASE d = 0 -> "0" [] d = 1 -> "1" [] d = 2 -> "2" [] d = 3 -> "3"
              [] d = 4 -> "4" [] d = 5 -> "5" [] d = 6 -> "6" [] d = 7 -> "7"
              [] d = 8 -> "8" [] d = 9 -> "9"

DigitValue(c) == CHOOSE d \in 0..9 : Digit(d) = c

\* str(n) for n >= 0, one element per character
RECURSIVE Str(_)
Str(n) == IF n < 10 THEN <<Digit(n)>> ELSE Str(n \div 10) \o <<Digit(n % 10)>>

\* int(s) for a sequence of digit characters
RECURSIVE Int_(_)
Int_(s) == IF Len(s) = 0 THEN 0
           ELSE 10 * Int_(SubSeq(s, 1, Len(s) - 1)) + DigitValue(s[Len(s)])

\* 'cell_{}_{}'.format(row_index, cell_index)
CellId(row_index, cell_index) == <<"cell_">> \o Str(row_index) \o <<"_">> \o Str(cell_index)

\* cell_id[len("cell_"): -len("_{}".format(index_column))]
DecodeRow(cell_id, index_column) ==
    Int_(SubSeq(cell_id, 2, Len(cell_id) - (1 + Len(Str(index_column)))))

------------------------------------------------------------------------------
(* Fields of the block *)

VARIABLES
    content,          \* Scope.content: the table definition
    row_heights,      \* Scope.content: the parsed row-heights list, <<>> if unset
    score_type,       \* Scope.settings
    extendable,       \* Scope.settings
    max_attempts,     \* Scope.settings: 0 if unset
    answers,          \* Scope.user_state: cell id -> submitted value
    answers_correct,  \* Scope.user_state: NoneVal, an outcome map or a status dict
    score,            \* Scope.user_state: NoneVal or a fraction
    attempts,         \* Scope.user_state
    additional_rows,  \* Scope.user_state: the pending rows
    last,             \* the last request: handler, short-circuit taken, exception raised
    field_data,       \* the `data` the author entered in Studio, NoneVal if none
    validation,       \* the messages validate_field_data added to `validation`
    span_call         \* a call of generate_span: its arguments and, once it has
                      \* returned, its result; NoneVal if none

vars == <<content, row_heights, score_type, extendable, max_attempts, answers,
          answers_correct, score, attempts, additional_rows, last, field_data, validation,
          span_call>>

studio == <<field_data, validation, span_call>>

settings == <<content, row_heights, score_type, extendable, max_attempts>>

SCORE_OPTIONS == <<"scorable", "no_right_answer", "unique_option">>

\* the author's maximum_score setting (the field's default is 1.0)
maximum_score == 2

\* the author's default_tolerance setting, in percent (the field's default is
\* 1.0)
default_tolerance == 50

\* the height parse_fields gives every row when row_heights is empty
DEFAULT_ROW_HEIGHT == 36

\* the author's row-heights setting when it is given: validate_field_data
\* accepts a list with one height for the header and one for each row of
\* `text`
ExplicitRowHeights(text) == [i \in 1..Len(text) |-> 40]

NoId == <<>>

Min(a, b) == IF a < b THEN a ELSE b

------------------------------------------------------------------------------
(* Parsing and augmentation *)

\* process_additional_rows appending a cell for idx = 0 only: a materialised
\* row holds its seed cell and nothing else
process_additional_rows_seed_only(author_tbody, rows) ==
    LET cells == author_tbody[Len(author_tbody)].cells
    IN  [k \in 1..Len(rows) |->
           [index |-> rows[k].index,
            cells |-> [j \in 1..Min(1, Len(cells)) |->
                         [kind |-> "static", value |-> IntVal(rows[k].new_column_value),
                          answer |-> "", abs_tolerance |-> NoneVal, index |-> j - 1]]]]

\* One materialised row per pending row: a static first cell holding the seed
\* value, text cells with answer "" after it, shaped after the last row.
process_additional_rows(author_tbody, rows) ==
    LET cells == author_tbody[Len(author_tbody)].cells
    IN  [k \in 1..Len(rows) |->
           [index |-> rows[k].index,
            cells |-> [j \in 1..Len(cells) |->
                         IF j - 1 = 0
                         THEN [kind |-> "static", value |-> IntVal(rows[k].new_column_value),
                               answer |-> "", abs_tolerance |-> NoneVal, index |-> j - 1]
                         ELSE [kind |-> "text", value |-> NoneVal,
                               answer |-> "", abs_tolerance |-> NoneVal, index |-> j - 1]]]]

\* self.thead, self.tbody and self._row_heights for a pending-row list
parse_fields(rows) ==
    LET parsed == parse_table(content)
        body == IF extendable
                THEN parsed.tbody \o process_additional_rows(parsed.tbody, rows)
                ELSE parsed.tbody
    IN  [thead |-> parsed.thead,
         tbody |-> body,
         heights |-> IF row_heights # <<>>
                     THEN row_heights
                     ELSE [i \in 1..(Len(body) + 1) |-> DEFAULT_ROW_HEIGHT]]

\* zip(self.tbody, self._row_heights[1:]): the number of rows the loop visits
ZipLength(pf) == Min(Len(pf.tbody), Len(pf.heights) - 1)

\* isinstance(cell, NumericCell) and not cell.abs_tolerance: a tolerance of
\* 0.0 is taken for a missing one
NeedsDefaultTolerance_falsy(cell) ==
    /\ cell.kind = "numeric"
    /\ cell.abs_tolerance \in {NoneVal, Frac(0, 1)}

\* isinstance(cell, NumericCell) and cell.abs_tolerance is None
NeedsDefaultTolerance(cell) ==
    /\ cell.kind = "numeric"
    /\ cell.abs_tolerance = NoneVal

\* the cell as the loop body of postprocess_table leaves it
AugmentCell(row, cell, height, stored) ==
    LET id == CellId(row.index, cell.index)
    IN  [kind |-> cell.kind, answer |-> cell.answer, index |-> cell.index,
         id |-> id,
         abs_tolerance |-> IF ~is_static(cell) /\ NeedsDefaultTolerance(cell)
                           THEN set_tolerance(cell, default_tolerance).abs_tolerance
                           ELSE cell.abs_tolerance,
         classes |-> IF is_static(cell) THEN "" ELSE "active",
         value |-> IF is_static(cell) THEN cell.value
                   ELSE IF id \in DOMAIN stored THEN StrVal(stored[id]) ELSE NoneVal,
         height |-> IF is_static(cell) THEN 0 ELSE height - 2]

\* a cell the loop of postprocess_table did not visit
RawCell(cell) ==
    [kind |-> cell.kind, answer |-> cell.answer, index |-> cell.index,
     abs_tolerance |-> cell.abs_tolerance,
     id |-> NoId, classes |-> "", value |-> cell.value, height |-> 0]

\* self.tbody after postprocess_table
postprocess_tbody(pf, stored) ==
    [i \in 1..Len(pf.tbody) |->
       LET row == pf.tbody[i]
       IN  IF i <= ZipLength(pf)
           THEN [index |-> row.index,
                 height |-> pf.heights[i + 1],
                 class |-> IF row.index % 2 = 1 THEN "even" ELSE "odd",
                 cells |-> [j \in 1..Len(row.cells) |->
                              IF j <= Len(pf.thead)
                              THEN AugmentCell(row, row.cells[j], pf.heights[i + 1], stored)
                              ELSE RawCell(row.cells[j])]]
           ELSE [index |-> row.index, height |-> 0, class |-> "",
                 cells |-> [j \in 1..Len(row.cells) |-> RawCell(row.cells[j])]]]

\* self.response_cells after postprocess_table: id -> cell, the last cell
\* stored under an id winning
postprocess_response_cells(body) ==
    LET at == {p \in UNION {{<<i, j>> : j \in 1..Len(body[i].cells)} : i \in 1..Len(body)} :
                 /\ body[p[1]].cells[p[2]].id # NoId
                 /\ ~is_static(body[p[1]].cells[p[2]])}
        ids == {body[p[1]].cells[p[2]].id : p \in at}
        lastOf(id) == CHOOSE p \in at :
                        /\ body[p[1]].cells[p[2]].id = id
                        /\ \A q \in at : body[q[1]].cells[q[2]].id = id =>
                              (q[1] < p[1] \/ (q[1] = p[1] /\ q[2] <= p[2]))
    IN  [id \in ids |-> body[lastOf(id)[1]].cells[lastOf(id)[2]]]

------------------------------------------------------------------------------
(* Status and score *)

\* The dictionary get_status returns.  Only its type and its length are read
\* by the code that receives it in place of an outcome map, so its entries
\* are not kept.
StatusDict == [tag |-> "status"]

OutcomeMap(m) == [tag |-> "map", map |-> m]

\* num_correct_answers: None, the sum of the outcomes, or "TypeError" when
\* the values cannot be added to an integer
num_correct_answers(ac) ==
    IF ac.tag = "none" THEN [tag |-> "none"]
    ELSE IF ac.tag = "status" THEN [tag |-> "error", error |-> "TypeError"]
    ELSE IF \E id \in DOMAIN ac.map : ~IsBool(ac.map[id])
         THEN [tag |-> "error", error |-> "TypeError"]
         ELSE [tag |-> "int", n |-> Cardinality({id \in DOMAIN ac.map : ac.map[id] = JTrue})]

\* num_total_answers
num_total_answers(ac) ==
    IF ac.tag = "none" THEN [tag |-> "none"]
    ELSE IF ac.tag = "status" THEN [tag |-> "int", n |-> 8]
    ELSE [tag |-> "int", n |-> Cardinality(DOMAIN ac.map)]

\* get_status: the dictionary, or the exception num_correct_answers raises
\* while it is built
get_status(ac) ==
    IF num_correct_answers(ac).tag = "error"
    THEN [error |-> num_correct_answers(ac).error, ret |-> StatusDict]
    ELSE [error |-> "", ret |-> StatusDict]

\* self.num_correct_answers * self.maximum_score / divisor
ScoreOf(ac, divisor) ==
    LET n == num_correct_answers(ac)
    IN  IF n.tag = "error" THEN n
        ELSE IF n.tag = "none" THEN [tag |-> "error", error |-> "TypeError"]
        ELSE IF divisor = 0 THEN [tag |-> "error", error |-> "ZeroDivisionError"]
        ELSE Frac(n.n * maximum_score, divisor)

------------------------------------------------------------------------------
(* Pending rows *)

\* remove_unsaved_rows looping over the list it removes from: the row that
\* follows a removed row is skipped
RECURSIVE remove_while_iterating(_, _)
remove_while_iterating(rows, k) ==
    IF k > Len(rows) THEN rows
    ELSE IF ~rows[k].save
    THEN remove_while_iterating(SubSeq(rows, 1, k - 1) \o SubSeq(rows, k + 1, Len(rows)), k + 1)
    ELSE remove_while_iterating(rows, k + 1)

remove_unsaved_rows_in_place(rows) == remove_while_iterating(rows, 1)

\* remove_unsaved_rows: every row with save = False is removed
remove_unsaved_rows(rows) == SelectSeq(rows, LAMBDA row : row.save)

\* save_filled_additional_rows assigning row["save"] = (value != "") without
\* the test of the value: an empty value unmarks the row
MarkRows_assign(rows, data, rc, ids) ==
    [k \in 1..Len(rows) |->
       IF \E id \in ids :
            /\ rows[k].index = DecodeRow(id, rc[id].index)
            /\ \A h \in 1..(k - 1) : rows[h].index # rows[k].index
       THEN [rows[k] EXCEPT !.save =
               \E id \in ids : /\ data[id] # ""
                               /\ rows[k].index = DecodeRow(id, rc[id].index)]
       ELSE rows[k]]

\* the rows after the loop body of save_filled_additional_rows has run for
\* the cell ids in `ids`: for a non-empty value, the first row whose index is
\* the decoded row index is marked
MarkRows(rows, data, rc, ids) ==
    [k \in 1..Len(rows) |->
       IF \E id \in ids :
            /\ data[id] # ""
            /\ rows[k].index = DecodeRow(id, rc[id].index)
            /\ \A h \in 1..(k - 1) : rows[h].index # rows[k].index
       THEN [rows[k] EXCEPT !.save = TRUE]
       ELSE rows[k]]

\* save_filled_additional_rows: the outcomes.  The items of the dictionary
\* come in no fixed order, so a cell id that is not a response cell raises
\* KeyError after any set of the other items has been handled.
save_filled_additional_rows(rows, data, rc) ==
    LET known == {id \in DOMAIN data : id \in DOMAIN rc}
    IN  IF known = DOMAIN data
        THEN {[rows |-> MarkRows(rows, data, rc, known), error |-> ""]}
        ELSE {[rows |-> MarkRows(rows, data, rc, done), error |-> "KeyError"] :
                done \in SUBSET known}

\* check_responses without the tests of score_type: every value is checked
\* against its cell
check_responses_checked(data, rc) ==
    LET missing == {id \in DOMAIN data : id \notin DOMAIN rc}
    IN  IF missing = {}
        THEN {[error |-> "", map |-> [id \in DOMAIN data |->
                                        check_response(rc[id], data[id])]]}
        ELSE {[error |-> "KeyError", map |-> data]}

\* check_responses: the outcome map, or the exceptions it can raise
check_responses(data, rc) ==
    IF score_type = SCORE_OPTIONS[2]
    THEN {[error |-> "", map |-> [id \in DOMAIN data |->
                                    IF data[id] # "" THEN JTrue ELSE JFalse]]}
    ELSE IF score_type = SCORE_OPTIONS[3]
    THEN {[error |-> "", map |-> data]}
    ELSE LET missing == {id \in DOMAIN data : id \notin DOMAIN rc}
             unfit == {id \in DOMAIN data \ missing :
                         check_response(rc[id], data[id]) = "AttributeError"}
         IN  IF missing = {} /\ unfit = {}
             THEN {[error |-> "", map |-> [id \in DOMAIN data |->
                                             check_response(rc[id], data[id])]]}
             ELSE {[error |-> "KeyError", map |-> data] : id \in missing}
                  \cup {[error |-> "AttributeError", map |-> data] : id \in unfit}

------------------------------------------------------------------------------
(* Requests *)

EmptyDict == [id \in {} |-> ""]

\* the positions <<row, cell>> of a table
Positions(body) ==
    UNION {{<<i, j>> : j \in 1..Len(body[i].cells)} : i \in 1..Len(body)}

\* the ids a submission of the model is keyed by: the ids of the non-static
\* cells of the last row of the parsed table, of its first non-static cell
\* and of its first static cell
SubmittableIds(body) ==
    LET static == {p \in Positions(body) : is_static(body[p[1]].cells[p[2]])}
        open == Positions(body) \ static
        first(S) == {p \in S : \A q \in S : p[1] < q[1] \/ (p[1] = q[1] /\ p[2] <= q[2])}
        ends == {p \in open : p[1] = Len(body)}
    IN  {CellId(body[p[1]].index, body[p[1]].cells[p[2]].index) :
           p \in ends \cup first(open) \cup first(static)}

\* the values a student submits in the model: the empty string and a string
\* (a numeral when the table has a numeric cell), and the boolean a checkbox
\* of a unique_option table sends
Values ==
    IF score_type = SCORE_OPTIONS[3] THEN {"a", JTrue}
    ELSE IF content \in NumericContents THEN {"", "5"}
    ELSE {"", "a"}

\* the submission maps of the model for a parsed table: at most MaxEntries
\* entries
Submissions(body) ==
    UNION {[keys -> Values] :
             keys \in {k \in SUBSET SubmittableIds(body) : Cardinality(k) <= MaxEntries}}

\* self.thead, self.tbody and self.response_cells after parse_fields and
\* postprocess_table
Grid(rows, stored) ==
    LET pf == parse_fields(rows)
        body == postprocess_tbody(pf, stored)
    IN  [thead |-> pf.thead, tbody |-> body,
         response_cells |-> postprocess_response_cells(body)]

\* the short-circuit test of check_and_save_answers
Exhausted == max_attempts # 0 /\ attempts >= max_attempts

\* check_and_save_answers: the outcomes of the call, `grid` being what its
\* calls of parse_fields and postprocess_table build.  `ret` is the value
\* returned, `rows` and `stored` are additional_rows and answers after it.
check_and_save_answers(data, grid) ==
    IF Exhausted
    THEN {[exhausted |-> TRUE, error |-> get_status(answers_correct).error,
           ret |-> get_status(answers_correct).ret, rows |-> additional_rows,
           stored |-> answers]}
    ELSE LET rc == grid.response_cells
             filled == IF extendable
                       THEN save_filled_additional_rows(additional_rows, data, rc)
                       ELSE {[rows |-> additional_rows, error |-> ""]}
         IN  UNION {IF f.error # ""
                    THEN {[exhausted |-> FALSE, error |-> f.error, ret |-> StatusDict,
                           rows |-> f.rows, stored |-> answers]}
                    ELSE {IF c.error # ""
                          THEN [exhausted |-> FALSE, error |-> c.error, ret |-> StatusDict,
                                rows |-> f.rows, stored |-> answers]
                          ELSE [exhausted |-> FALSE, error |-> "", ret |-> OutcomeMap(c.map),
                                rows |-> f.rows, stored |-> data] :
                            c \in check_responses(data, rc)} :
                      f \in filled}

Init ==
    /\ content \in Contents
    /\ row_heights \in {<<>>, ExplicitRowHeights(content)}
    /\ score_type \in {SCORE_OPTIONS[i] : i \in 1..3}
    /\ extendable \in BOOLEAN
    /\ max_attempts \in {0, 1}
    /\ answers = EmptyDict
    /\ answers_correct = NoneVal
    /\ score = NoneVal
    /\ attempts = 0
    /\ additional_rows = <<>>
    /\ last = [op |-> "init", exhausted |-> FALSE, error |-> ""]
    /\ field_data = NoneVal
    /\ validation = <<>>
    /\ span_call = NoneVal

\* the same for the scorable tables
InitScorable == Init /\ score_type = SCORE_OPTIONS[1]

\* the same for a scorable table with a numeric response cell, no row-heights
\* list and no limit of attempts
InitNumeric ==
    /\ content \in NumericContents
    /\ row_heights = <<>>
    /\ score_type = SCORE_OPTIONS[1]
    /\ extendable \in BOOLEAN
    /\ max_attempts = 0
    /\ answers = EmptyDict
    /\ answers_correct = NoneVal
    /\ score = NoneVal
    /\ attempts = 0
    /\ additional_rows = <<>>
    /\ last = [op |-> "init", exhausted |-> FALSE, error |-> ""]
    /\ field_data = NoneVal
    /\ validation = <<>>
    /\ span_call = NoneVal

\* student_view: the part that reads and writes the fields
student_view ==
    /\ additional_rows' = remove_unsaved_rows(additional_rows)
    /\ last' = [op |-> "student_view", exhausted |-> FALSE,
                 error |-> get_status(answers_correct).error]
    /\ UNCHANGED <<settings, studio, answers, answers_correct, score, attempts>>

\* check_answers without line 297: the request consumes no attempt
Attempted_unchanged(n) == n

\* self.attempts += 1
Attempted(n) == n + 1

\* check_answers, for the submission `data`
check_answers(data, grid) ==
    /\ attempts < MaxAttempts
    /\ \E o \in check_and_save_answers(data, grid) :
         /\ additional_rows' = o.rows
         /\ answers' = o.stored
         /\ IF o.error # ""
            THEN /\ last' = [op |-> "check_answers", exhausted |-> o.exhausted, error |-> o.error]
                 /\ UNCHANGED <<answers_correct, attempts, score>>
            ELSE LET sc == ScoreOf(o.ret, num_total_answers(o.ret).n)
                 IN  /\ answers_correct' = o.ret
                     /\ attempts' = Attempted(attempts)
                     /\ score' = IF sc.tag = "error" THEN score ELSE sc
                     /\ last' = [op |-> "check_answers", exhausted |-> o.exhausted,
                                 error |-> IF sc.tag = "error" THEN sc.error ELSE ""]
    /\ UNCHANGED <<settings, studio>>

\* save_answers without the else branch: the outcomes check_and_save_answers
\* returned stay recorded
Unchecked_kept(ret) == ret

\* the else branch of save_answers: self.answers_correct = None
Unchecked(ret) == NoneVal

\* save_answers, for the submission `data`
save_answers(data, grid) ==
    /\ \E o \in check_and_save_answers(data, grid) :
         /\ additional_rows' = o.rows
         /\ answers' = o.stored
         /\ attempts' = attempts
         /\ IF o.error # ""
            THEN /\ last' = [op |-> "save_answers", exhausted |-> o.exhausted, error |-> o.error]
                 /\ UNCHANGED <<answers_correct, score>>
            ELSE IF score_type = SCORE_OPTIONS[2] \/ score_type = SCORE_OPTIONS[3]
            THEN LET sc == IF score_type = SCORE_OPTIONS[2]
                           THEN ScoreOf(o.ret, num_total_answers(o.ret).n)
                           ELSE ScoreOf(o.ret, grid.tbody[Len(grid.tbody)].index)
                 IN  /\ answers_correct' = o.ret
                     /\ score' = IF sc.tag = "error" THEN score ELSE sc
                     /\ last' = [op |-> "save_answers", exhausted |-> o.exhausted,
                                 error |-> IF sc.tag = "error" THEN sc.error ELSE ""]
            ELSE /\ answers_correct' = Unchecked(o.ret)
                 /\ score' = score
                 /\ last' = [op |-> "save_answers", exhausted |-> o.exhausted, error |-> ""]
    /\ UNCHANGED <<settings, studio>>

\* _add_row without the + 1 on the row index
NewRow_same_index(index, previous_column_value) ==
    [index |-> index, new_column_value |-> previous_column_value + 1, save |-> FALSE]

\* the entry _add_row appends for a last row of index `index` whose first
\* column holds the integer `previous_column_value`
NewRow(index, previous_column_value) ==
    [index |-> index + 1, new_column_value |-> previous_column_value + 1, save |-> FALSE]

\* add_row (_add_row, then get_status)
add_row ==
    /\ Len(additional_rows) < MaxAdditionalRows
    /\ LET pf == parse_fields(additional_rows)
       IN  pf.tbody[Len(pf.tbody)].index < (Len(content) - 1) + MaxAdditionalRows
    /\ LET pf == parse_fields(additional_rows)
           last_item == pf.tbody[Len(pf.tbody)]
           index == last_item.index
           cells == last_item.cells
           previous_column_value == IF is_static(cells[1]) THEN cells[1].value
                                    ELSE IntVal(index)
       IN  IF Len(cells) = 0
           THEN /\ additional_rows' = additional_rows
                /\ last' = [op |-> "add_row", exhausted |-> FALSE,
                            error |-> get_status(answers_correct).error]
           ELSE IF previous_column_value.t = "int"
           THEN /\ additional_rows' = Append(additional_rows,
                                                  NewRow(index, previous_column_value.n))
                /\ last' = [op |-> "add_row", exhausted |-> FALSE,
                            error |-> get_status(answers_correct).error]
           ELSE \* len(self.body): the block has no attribute body
                /\ additional_rows' = additional_rows
                /\ last' = [op |-> "add_row", exhausted |-> FALSE, error |-> "AttributeError"]
    /\ UNCHANGED <<settings, studio, answers, answers_correct, score, attempts>>

\* A request of the student: the table is built once per request.
CheckRequest ==
    \E grid \in {Grid(additional_rows, answers)} :
      \E data \in Submissions(grid.tbody) : check_answers(data, grid)

SaveRequest ==
    \E grid \in {Grid(additional_rows, answers)} :
      \E data \in Submissions(grid.tbody) : save_answers(data, grid)

------------------------------------------------------------------------------
(* Author-time validation *)

\* a table definition parse_table rejects: its row has one cell under two
\* headers
MalformedContent == << <<"H1", "H2">>,
                       <<StaticCell(IntVal(5))>> >>

\* parse_table raises ParseError: no header row, or a row whose cell count
\* differs from the header row's
ParseError(text) ==
    \/ Len(text) = 0
    \/ \E i \in 2..Len(text) : Len(text[i]) # Len(text[1])

\* The text of a number-list field: empty, text parse_number_list rejects, or
\* the text of a list of n numbers
NoNumberList == [given |-> FALSE, parses |-> TRUE, list |-> <<>>]
BadNumberList == [given |-> TRUE, parses |-> FALSE, list |-> <<>>]
NumberList(n) == [given |-> TRUE, parses |-> TRUE, list |-> [i \in 1..n |-> 40]]

NumberLists == {NoNumberList, BadNumberList} \cup {NumberList(n) : n \in 0..3}

\* headers_style: the snippet as the sequence of its occurrences of "table"
\* and "thead", at most MaxTokens of them
MaxTokens == 4
HeaderStyles == UNION {[1..n -> {"table", "thead"}] : n \in 0..MaxTokens}

\* data.headers_style.count(token)
Count(style, token) == Cardinality({i \in 1..Len(style) : style[i] = token})

\* the `data` validate_field_data is called with
FieldData ==
    [tag : {"data"},
     content : {ContentA, MalformedContent},
     column_widths : NumberLists,
     row_heights : NumberLists,
     custom_headers : BOOLEAN,
     headers_style : HeaderStyles]

TableError == "Problem with table definition"
ColumnWidthsError == "Problem with column widths"
ColumnWidthsMismatch ==
    "The number of list entries in the Column widths field must match the number of columns in the table."
RowHeightsError == "Problem with row heights"
RowHeightsMismatch ==
    "The number of list entries in the Row heights field must match the number of rows in the table."
TableTokensError == "Headers must be defined inside a unique table"
TheadTokensError == "Headers must be defined inside a unique <thead></thead> label"

\* the custom-headers part of validate_field_data
HeadersErrors(data) ==
    IF data.custom_headers
    THEN IF Count(data.headers_style, "table") # 2 THEN <<TableTokensError>>
         ELSE IF Count(data.headers_style, "thead") # 2 THEN <<TheadTokensError>>
         ELSE <<>>
    ELSE <<>>

\* validate_field_data: the messages added to `validation`, in order
validate_field_data(data) ==
    LET failed == ParseError(data.content)
        table == IF failed THEN <<TableError>> ELSE <<>>
        widths == IF ~data.column_widths.given THEN <<>>
                  ELSE IF ~data.column_widths.parses THEN <<ColumnWidthsError>>
                  ELSE IF ~failed /\ Len(data.column_widths.list)
                                       # Len(parse_table(data.content).thead)
                  THEN <<ColumnWidthsMismatch>>
                  ELSE <<>>
        heights == IF ~data.row_heights.given THEN <<>>
                   ELSE IF ~data.row_heights.parses THEN <<RowHeightsError>>
                   ELSE IF ~failed /\ Len(data.row_heights.list)
                                        # Len(parse_table(data.content).tbody) + 1
                   THEN <<RowHeightsMismatch>>
                   ELSE <<>>
    IN  table \o widths \o heights \o HeadersErrors(data)

\* the author saves the settings in Studio: validate_field_data runs on the
\* data entered
ValidateRequest ==
    /\ validation' = validate_field_data(field_data)
    /\ last' = [op |-> "validate_field_data", exhausted |-> FALSE, error |-> ""]
    /\ UNCHANGED <<settings, field_data, span_call, answers, answers_correct, score,
                   attempts, additional_rows>>

\* the block in Studio, the author having entered `field_data`: default
\* student state
InitValidate ==
    /\ content = ContentA
    /\ row_heights = <<>>
    /\ score_type = SCORE_OPTIONS[1]
    /\ extendable = FALSE
    /\ max_attempts = 0
    /\ answers = EmptyDict
    /\ answers_correct = NoneVal
    /\ score = NoneVal
    /\ attempts = 0
    /\ additional_rows = <<>>
    /\ last = [op |-> "init", exhausted |-> FALSE, error |-> ""]
    /\ field_data \in FieldData
    /\ validation = <<>>
    /\ span_call = NoneVal

------------------------------------------------------------------------------
(* Custom headers of the exported table *)

\* the largest last row index and last column index of a header grid
MaxHeaderIndex == 2
\* the largest colspan and rowspan of a header cell
MaxSpan == 3

\* generate_span without the two tests against max_col and max_row
generate_span_unclipped(colspan, rowspan, row, col, max_row, max_col) ==
    [source |-> <<col, row>>,
     end |-> <<IF colspan > 0 THEN col + colspan ELSE col,
               IF rowspan > 0 THEN row + rowspan ELSE row>>]

\* generate_span: ("SPAN", source, (col, row))
generate_span(colspan, rowspan, row, col, max_row, max_col) ==
    LET col1 == IF colspan > 0 /\ rowspan > 0 THEN col + colspan
                ELSE IF colspan > 0 THEN col + colspan
                ELSE col
        row1 == IF colspan > 0 /\ rowspan > 0 THEN row + rowspan
                ELSE IF colspan > 0 THEN row
                ELSE IF rowspan > 0 THEN row + rowspan
                ELSE row
    IN  [source |-> <<col, row>>,
         end |-> <<IF col1 > max_col THEN max_col ELSE col1,
                   IF row1 > max_row THEN max_row ELSE row1>>]

\* the calls the loops of generate_table_pdf_headers make: row and col are
\* indices of the header grid, max_row and max_col its last indices
SpanCalls ==
    {[tag |-> "call", colspan |-> colspan, rowspan |-> rowspan, row |-> row, col |-> col,
      max_row |-> max_row, max_col |-> max_col, source |-> <<>>, end |-> <<>>] :
       colspan \in 0..MaxSpan, rowspan \in 0..MaxSpan,
       row \in 0..MaxHeaderIndex, col \in 0..MaxHeaderIndex,
       max_row \in 0..MaxHeaderIndex, max_col \in 0..MaxHeaderIndex}

\* one call of generate_span returns
GenerateSpan ==
    /\ span_call.tag = "call"
    /\ LET c == span_call
           r == generate_span(c.colspan, c.rowspan, c.row, c.col, c.max_row, c.max_col)
       IN  span_call' = [c EXCEPT !.tag = "return", !.source = r.source, !.end = r.end]
    /\ UNCHANGED <<settings, field_data, validation, answers, answers_correct, score,
                   attempts, additional_rows, last>>

\* a header cell of the grid is about to be given its span
InitSpan ==
    /\ content = ContentA
    /\ row_heights = <<>>
    /\ score_type = SCORE_OPTIONS[1]
    /\ extendable = FALSE
    /\ max_attempts = 0
    /\ answers = EmptyDict
    /\ answers_correct = NoneVal
    /\ score = NoneVal
    /\ attempts = 0
    /\ additional_rows = <<>>
    /\ last = [op |-> "init", exhausted |-> FALSE, error |-> ""]
    /\ field_data = NoneVal
    /\ validation = <<>>
    /\ span_call \in {c \in SpanCalls : c.row <= c.max_row /\ c.col <= c.max_col}

Next ==
    \/ student_view
    \/ CheckRequest
    \/ SaveRequest
    \/ add_row

Spec == Init /\ [][Next]_vars

SpecScorable == InitScorable /\ [][Next]_vars

SpecNumeric == InitNumeric /\ [][Next]_vars

SpecValidate == InitValidate /\ [][ValidateRequest]_vars

SpecSpan == InitSpan /\ [][GenerateSpan]_vars

------------------------------------------------------------------------------
(* Properties *)

\* the table a request arriving in the current state builds
CurrentGrid == Grid(additional_rows, answers)

IsSubmitStep == last'.op \in {"check_answers", "save_answers"}

\* C1: when max_attempts is set and attempts >= max_attempts, a check_answers
\* or save_answers request leaves score and attempts as they were.
C1_ExhaustedKeepsScoreAndAttempts ==
    [][(Exhausted /\ IsSubmitStep) => (score' = score /\ attempts' = attempts)]_vars

\* C2: when max_attempts is set and exhausted, a check_answers or
\* save_answers request is a silent no-op: it completes, the recorded
\* per-cell outcomes and the stored answers are unchanged, and so the status
\* it returns is the status recorded before it.
C2_ExhaustedIsSilentNoOp ==
    [][(Exhausted /\ IsSubmitStep) =>
         /\ last'.error = ""
         /\ answers_correct' = answers_correct
         /\ answers' = answers
         /\ score' = score
         /\ attempts' = attempts]_vars

\* C3: in scorable mode, after a check_answers request that was not
\* short-circuited and completed, score = (number of response cells of the
\* grid whose submitted value is correct / number of response cells of the
\* grid) * maximum_score, whichever cells the submission has entries for.
C3_ScoreOverResponseCells ==
    (score_type = SCORE_OPTIONS[1] /\ last.op = "check_answers"
       /\ ~last.exhausted /\ last.error = "") =>
      LET rc == CurrentGrid.response_cells
          correct == {id \in DOMAIN rc :
                        id \in DOMAIN answers /\ check_response(rc[id], answers[id]) = JTrue}
      IN  score = Frac(Cardinality(correct) * maximum_score, Cardinality(DOMAIN rc))

\* C4: in unique_option mode, a save_answers request that was not
\* short-circuited and names response cells only completes, with the raw
\* submitted values as per-cell outcomes and with
\* score = (number of non-empty submissions / index of the last row) * maximum_score.
C4_UniqueOptionSaveCompletes ==
    (score_type = SCORE_OPTIONS[3] /\ last.op = "save_answers"
       /\ ~last.exhausted /\ last.error # "KeyError") =>
      LET body == CurrentGrid.tbody
          filled == {id \in DOMAIN answers : answers[id] # ""}
      IN  /\ last.error = ""
          /\ answers_correct = OutcomeMap(answers)
          /\ score = Frac(Cardinality(filled) * maximum_score, body[Len(body)].index)

\* the number of pending rows with save = False
Unsaved(rows) == Cardinality({k \in 1..Len(rows) : ~rows[k].save})

\* the ids of the non-static cells of a table
NonStaticIds(body) ==
    {CellId(body[p[1]].index, body[p[1]].cells[p[2]].index) :
       p \in {q \in Positions(body) : ~is_static(body[q[1]].cells[q[2]])}}

\* the row of index `index` is in the table a render builds from `rows`
RowRendered(index, rows) ==
    LET body == parse_fields(remove_unsaved_rows(rows)).tbody
    IN  \E i \in 1..Len(body) : body[i].index = index

\* C5: in an extendable table, once a check or save request that is not
\* short-circuited submits a non-empty value for a response cell of a
\* student-added row (every key of the submission naming a non-static cell of
\* the table), the next render shows that row.
C5_FilledRowIsRendered ==
    [][\A grid \in {CurrentGrid} : \A data \in Submissions(grid.tbody) :
         \A k \in 1..Len(additional_rows) :
           (/\ extendable
            /\ ~Exhausted
            /\ check_answers(data, grid) \/ save_answers(data, grid)
            /\ DOMAIN data \subseteq NonStaticIds(grid.tbody)
            /\ \E j \in 1..Len(grid.thead) :
                 /\ CellId(additional_rows[k].index, j - 1) \in DOMAIN data
                 /\ data[CellId(additional_rows[k].index, j - 1)] # "")
           => RowRendered(additional_rows[k].index, additional_rows')]_vars

\* C6 as stated: in every reachable state the pending-row list holds at most
\* one row with save = False.
C6_AtMostOneUnsaved == Unsaved(additional_rows) <= 1

\* C6: immediately after a render the pending-row list holds no row with
\* save = False.
C6_NoUnsavedAfterRender ==
    last.op = "student_view" => Unsaved(additional_rows) = 0

\* right after a render, the only pending row has an index past the first free
\* one: the render removed the unsaved row that preceded it
C6_Witness ==
    /\ last.op = "student_view"
    /\ Len(additional_rows) = 1
    /\ additional_rows[1].index > Len(content)

\* C7: a pending row with save = True stays in the list, with save = True and
\* with the same index and seed value, whatever request comes next.
C7_SavedRowsStay ==
    [][\A k \in 1..Len(additional_rows) :
         additional_rows[k].save =>
           \E j \in 1..Len(additional_rows') : additional_rows'[j] = additional_rows[k]]_vars

\* a saved row is still first in the list after a later add_row
C7_Witness ==
    /\ last.op = "add_row"
    /\ Len(additional_rows) >= 2
    /\ additional_rows[1].save
    /\ ~additional_rows[Len(additional_rows)].save

\* C8 as stated: in an extendable table the row indices of the parsed table
\* are 1..n, so the index of the last row is the number of rows.
C8_LastIndexIsRowCount ==
    extendable =>
      LET body == parse_fields(additional_rows).tbody
      IN  \A i \in 1..Len(body) : body[i].index = i

\* C8: in an extendable table the row indices of the parsed table start at 1
\* and strictly increase, so the index of the last row is at least the number
\* of rows.
C8_IndicesIncrease ==
    extendable =>
      LET body == parse_fields(additional_rows).tbody
      IN  /\ body[1].index = 1
          /\ \A i \in 1..(Len(body) - 1) : body[i].index < body[i + 1].index
          /\ body[Len(body)].index >= Len(body)

\* the indices have a gap
C8_Witness ==
    /\ extendable
    /\ LET body == parse_fields(additional_rows).tbody
       IN  body[Len(body)].index > Len(body)

\* C9: after parse_fields and postprocess_table every row of the table has as
\* many cells as there are headers, the headers are those of the content, and
\* the table has the author's rows plus, when extendable, one row per entry
\* of the pending-row list.
C9_GridShape ==
    LET grid == CurrentGrid
    IN  /\ grid.thead = content[1]
        /\ \A i \in 1..Len(grid.tbody) : Len(grid.tbody[i].cells) = Len(grid.thead)
        /\ Len(grid.tbody) = (Len(content) - 1)
                               + (IF extendable THEN Len(additional_rows) ELSE 0)

\* two materialised rows under an explicit row-heights list
C9_Witness ==
    /\ extendable
    /\ row_heights # <<>>
    /\ Len(additional_rows) >= 2
    /\ answers # EmptyDict

\* C10: after postprocess_table every non-static cell of every row of the
\* table has the id cell_{row index}_{column index} and is in the response
\* index under that id, and no static cell is in the index.
C10_EveryResponseCellIndexed ==
    LET grid == CurrentGrid
    IN  /\ \A p \in Positions(grid.tbody) :
             LET row == grid.tbody[p[1]]
                 cell == row.cells[p[2]]
             IN  ~is_static(cell) =>
                   /\ cell.id = CellId(row.index, cell.index)
                   /\ cell.id \in DOMAIN grid.response_cells
                   /\ grid.response_cells[cell.id] = cell
        /\ \A id \in DOMAIN grid.response_cells : ~is_static(grid.response_cells[id])

\* C11: in no_right_answer mode, the outcomes a check or save request that
\* was not short-circuited records are, for every submitted cell id, true iff
\* the submitted value is not the empty string, whatever the cell's answer.
C11_OutcomeIsNonEmpty ==
    (score_type = SCORE_OPTIONS[2] /\ last.op \in {"check_answers", "save_answers"}
       /\ ~last.exhausted /\ last.error \in {"", "ZeroDivisionError"}) =>
      answers_correct =
        OutcomeMap([id \in DOMAIN answers |-> IF answers[id] # "" THEN JTrue ELSE JFalse])

\* an outcome was recorded that differs from what checking the value against
\* the cell's answer gives
C11_Witness ==
    /\ score_type = SCORE_OPTIONS[2]
    /\ last.op \in {"check_answers", "save_answers"}
    /\ ~last.exhausted /\ last.error = ""
    /\ \E id \in DOMAIN answers \cap DOMAIN CurrentGrid.response_cells :
         answers_correct.map[id] # check_response(CurrentGrid.response_cells[id], answers[id])

\* C12: after postprocess_table a numeric cell's absolute tolerance is the
\* author's explicit tolerance when one was given, 0 included, and otherwise
\* |answer| * default_tolerance / 100.
C12_EffectiveTolerance ==
    LET grid == CurrentGrid
    IN  \A p \in Positions(grid.tbody) :
          LET cell == grid.tbody[p[1]].cells[p[2]]
              given == content[p[1] + 1][p[2]].abs_tolerance
          IN  cell.kind = "numeric" =>
                cell.abs_tolerance = IF given # NoneVal THEN given
                                     ELSE Frac(Abs(cell.answer) * default_tolerance, 100)

\* a submission was checked against a numeric cell whose explicit tolerance
\* is 0
C12_Witness ==
    /\ content \in NumericContents
    /\ content[2][2].abs_tolerance = Frac(0, 1)
    /\ last.op = "check_answers" /\ last.error = ""
    /\ CellId(1, 1) \in DOMAIN answers

\* the messages of the last validation run
Reported(msg) == \E i \in 1..Len(validation) : validation[i] = msg

\* C13: a validation run reports one error for each problem present: a
\* malformed table definition, a column-widths list whose length is not the
\* header count, a row-heights list whose length is not the row count + 1, a
\* custom-header snippet without exactly two "table" tokens, and one without
\* exactly two "thead" tokens.
C13_EveryProblemReported ==
    last.op = "validate_field_data" =>
      LET data == field_data
          failed == ParseError(data.content)
      IN  /\ failed => Reported(TableError)
          /\ (~failed /\ data.column_widths.given /\ data.column_widths.parses
                /\ Len(data.column_widths.list) # Len(data.content[1]))
               => Reported(ColumnWidthsMismatch)
          /\ (~failed /\ data.row_heights.given /\ data.row_heights.parses
                /\ Len(data.row_heights.list) # Len(data.content))
               => Reported(RowHeightsMismatch)
          /\ (data.custom_headers /\ Count(data.headers_style, "table") # 2)
               => Reported(TableTokensError)
          /\ (data.custom_headers /\ Count(data.headers_style, "thead") # 2)
               => Reported(TheadTokensError)

\* the last row of the table add_row parses
LastRow == LET body == parse_fields(additional_rows).tbody IN body[Len(body)]

\* C14: an add_row request appends exactly one row to the pending-row list,
\* with save = False and index = (index of the last row of the table) + 1, and
\* leaves the rows that were in the list as they were.
C14_AddRowAppendsOne ==
    [][add_row =>
         /\ Len(additional_rows') = Len(additional_rows) + 1
         /\ SubSeq(additional_rows', 1, Len(additional_rows)) = additional_rows
         /\ additional_rows'[Len(additional_rows')].index = LastRow.index + 1
         /\ ~additional_rows'[Len(additional_rows')].save]_vars

\* C15: an add_row request completes and appends a row whose seed value is
\* (value of the first cell of the last row) + 1 when that cell holds an
\* integer, and (number of rows of the table) + 1 otherwise.
C15_SeedValue ==
    [][add_row =>
         LET first == LastRow.cells[1]
             expected == IF is_static(first) /\ first.value.t = "int"
                         THEN first.value.n + 1
                         ELSE Len(parse_fields(additional_rows).tbody) + 1
         IN  /\ last'.error = ""
             /\ Len(additional_rows') = Len(additional_rows) + 1
             /\ additional_rows'[Len(additional_rows')].new_column_value = expected]_vars

\* the row index written in a cell id "cell_<row>_<col>"
RowOfId(cell_id) ==
    LET sep == CHOOSE i \in 2..Len(cell_id) : cell_id[i] = "_"
    IN  Int_(SubSeq(cell_id, 2, sep - 1))

\* C16: after a check or save request on an extendable table that is not
\* short-circuited (every key of the submission naming a non-static cell of
\* the table), a pending row has save = True iff it had save = True before
\* the request or the submission holds a non-empty value under a cell id of
\* that row's index.
C16_SavedIffFilled ==
    [][\A grid \in {CurrentGrid} : \A data \in Submissions(grid.tbody) :
         (/\ extendable
          /\ ~Exhausted
          /\ check_answers(data, grid) \/ save_answers(data, grid)
          /\ DOMAIN data \subseteq NonStaticIds(grid.tbody))
         => /\ Len(additional_rows') = Len(additional_rows)
            /\ \A k \in 1..Len(additional_rows) :
                 additional_rows'[k].save <=>
                   \/ additional_rows[k].save
                   \/ \E id \in DOMAIN data :
                        data[id] # "" /\ RowOfId(id) = additional_rows[k].index]_vars

\* C17: in every mode, after a check or save request that was not
\* short-circuited and completed, every key of the stored answers is the id
\* of a response cell of the table.
C17_StoredKeysAreResponseCells ==
    (last.op \in {"check_answers", "save_answers"} /\ ~last.exhausted /\ last.error = "") =>
      DOMAIN answers \subseteq DOMAIN CurrentGrid.response_cells

C19_PendingIndicesDistinct ==
    /\ \A j, k \in 1..Len(additional_rows) :
         j # k => additional_rows[j].index # additional_rows[k].index
    /\ \A k \in 1..Len(additional_rows) :
         \A i \in 1..Len(parse_table(content).tbody) :
           additional_rows[k].index > parse_table(content).tbody[i].index

\* C20: whenever score is set, 0 <= score <= maximum_score, in every mode and
\* for every submission.
C20_ScoreWithinMaximum ==
    score # NoneVal =>
      /\ 0 <= score.num
      /\ score.num <= maximum_score * score.den

\* C21: a check_answers or save_answers request that fails leaves attempts,
\* score, answers, answers_correct and the pending-row list as they were
\* before the request.
C21_FailedRequestChangesNothing ==
    [][(IsSubmitStep /\ last'.error # "") =>
         /\ attempts' = attempts
         /\ score' = score
         /\ answers' = answers
         /\ answers_correct' = answers_correct
         /\ additional_rows' = additional_rows]_vars

\* C22 as stated: attempts starts at 0, every check_answers request that is
\* not short-circuited increases it by exactly 1, save_answers, add_row and
\* student_view leave it as it was, and it never decreases.
C22_EveryCheckCounts ==
    /\ attempts = 0
    /\ [][/\ (last'.op = "check_answers" /\ ~Exhausted) => attempts' = attempts + 1
          /\ last'.op \in {"save_answers", "add_row", "student_view"} => attempts' = attempts
          /\ attempts' >= attempts]_vars

\* C22: attempts starts at 0; a check_answers request that is not
\* short-circuited increases it by exactly 1 when check_and_save_answers
\* returns and leaves it as it was when check_and_save_answers raises;
\* save_answers, add_row and student_view leave it as it was; it never
\* decreases.
C22_ReturnedCheckCounts ==
    /\ attempts = 0
    /\ [][/\ (last'.op = "check_answers" /\ ~Exhausted
                /\ last'.error \notin {"KeyError", "AttributeError"})
               => attempts' = attempts + 1
          /\ (last'.op = "check_answers" /\ ~Exhausted
                /\ last'.error \in {"KeyError", "AttributeError"})
               => attempts' = attempts
          /\ last'.op \in {"save_answers", "add_row", "student_view"} => attempts' = attempts
          /\ attempts' >= attempts]_vars

\* a check that raised at a cell lookup after a check that counted
C22_Witness ==
    /\ last.op = "check_answers"
    /\ ~last.exhausted
    /\ last.error = "KeyError"
    /\ attempts = 1

\* C23: for a header cell at (row, col) with non-negative colspan and
\* rowspan, the span generate_span returns starts at (col, row) and ends at
\* (col', row') with col <= col' <= max_col and row <= row' <= max_row.
C23_SpanInsideGrid ==
    span_call.tag = "return" =>
      /\ span_call.source = <<span_call.col, span_call.row>>
      /\ span_call.col <= span_call.end[1]
      /\ span_call.end[1] <= span_call.max_col
      /\ span_call.row <= span_call.end[2]
      /\ span_call.end[2] <= span_call.max_row

\* a span that was cut at the last column and at the last row of the grid
C23_Witness ==
    /\ span_call.tag = "return"
    /\ span_call.col + span_call.colspan > span_call.max_col
    /\ span_call.row + span_call.rowspan > span_call.max_row
    /\ span_call.col < span_call.max_col
    /\ span_call.row < span_call.max_row
    /\ span_call.end = <<span_call.max_col, span_call.max_row>>

====
